---- MODULE Spec2Model ----
(***************************************************************************)
(* The screen engine of the terminal client (cli/): the bubbletea model    *)
(* appModel, its Update function and the gateway commands it dispatches.   *)
(*                                                                         *)
(* Go strings that the program concatenates (rendered text, the editor     *)
(* buffer, the status line) are sequences of tokens; "" is <<>>.  Indices  *)
(* are 0-based as in the Go code; a slice s is read as s[i + 1].           *)
(* A Go nil (pointer, map, error) is Nil.                                  *)
(***************************************************************************)
EXTENDS Integers, Sequences, FiniteSets, TLC

VARIABLES
    view,           \* appModel.view
    email,          \* appModel.email
    emails,         \* appModel.emails
    currentEmail,   \* appModel.currentEmail
    response,       \* appModel.response (*NewEmailResponse or nil)
    currentAction,  \* appModel.currentAction
    status,         \* appModel.status
    editor,         \* appModel.editor (textarea: value and geometry)
    editorErr,      \* appModel.editorErr
    pending,        \* appModel.pending
    err,            \* appModel.err
    viewport,       \* appModel.viewport (content, geometry, scroll offset)
    inflight,       \* gateway commands dispatched and not yet completed
    running,        \* FALSE once tea.Quit has ended the program
    completions,    \* history: successful action completions for this email
    advances,       \* history: changes of currentAction made by completions
    doneEntries,    \* history: entries into stateDone for this email
    visited,        \* history: screens entered for this email
    submits         \* history: submit-email commands dispatched, per email index

vars == <<view, email, emails, currentEmail, response, currentAction, status,
          editor, editorErr, pending, err, viewport, inflight, running,
          completions, advances, doneEntries, visited, submits>>

Nil == [t |-> "nil"]

\* ------------------------------------------------------------------ bounds

\* Largest number of proposed actions a Submission Result carries.
MaxActions == 2
\* Number of sample emails the session walks through.
MaxEmails == 2

\* ------------------------------------------------------------- view states

stateLoading == "Loading"
statePreviewEmail == "PreviewEmail"
stateSummary == "Summary"
stateReview == "Review"
stateEditingPayload == "EditingPayload"
statePromptGeneral == "PromptGeneral"
stateSubmittingAction == "SubmittingAction"
stateDone == "Done"
stateError == "Error"

viewState ==
    {stateLoading, statePreviewEmail, stateSummary, stateReview,
     stateEditingPayload, statePromptGeneral, stateSubmittingAction,
     stateDone, stateError}

previewInstruction ==
    <<"Press Enter to submit the email to the agents. Press 'q' to quit.">>

\* ------------------------------------------------------------------- text

NL == "\n"
SP == " "
WhiteSpace == {SP, NL, "  "}

RECURSIVE TrimLeft(_)
TrimLeft(s) ==
    IF s # <<>> /\ Head(s) \in WhiteSpace THEN TrimLeft(Tail(s)) ELSE s

RECURSIVE TrimRight(_)
TrimRight(s) ==
    IF s # <<>> /\ s[Len(s)] \in WhiteSpace
    THEN TrimRight(SubSeq(s, 1, Len(s) - 1))
    ELSE s

\* strings.TrimSpace
TrimSpace(s) == TrimRight(TrimLeft(s))

\* Number of lines of a text: strings.Split(s, "\n") as the viewport does.
LineCount(s) == 1 + Cardinality({i \in 1..Len(s) : s[i] = NL})

\* strings.ToLower on the rune strings a key message carries.
ToLower(r) ==
    CASE r = "A" -> "a"
      [] r = "Q" -> "q"
      [] r = "Y" -> "y"
      [] OTHER -> r

\* The lipgloss styles add colour escapes only: the text is unchanged.
labelStyle(s) == s
successStyle(s) == s
errorTextStyle(s) == s
subtleTextStyle(s) == s
titleStyle(s) == s

\* ------------------------------------------------------------------- JSON
\* encoding/json on token sequences.  A decoded value (interface{}) is a
\* tagged record; a Go map[string]interface{} is JMap(kv) or Nil.

JNull == [t |-> "null"]
JBool(b) == [t |-> "bool", b |-> b]
JNum(n) == [t |-> "num", n |-> n]
JStr(s) == [t |-> "str", s |-> s]
JArr(items) == [t |-> "arr", items |-> items]
JMap(kv) == [t |-> "map", kv |-> kv]

\* String and number literals of the token alphabet, with their values.
StringLit == ("\"j\"" :> "j") @@ ("\"k\"" :> "k")
NumberLit == ("1" :> 1) @@ ("2" :> 2)
\* Object keys in the order sort.Strings gives them.
KeyOrder == <<"j", "k">>

KeyTok(k) == CHOOSE tk \in DOMAIN StringLit : StringLit[tk] = k
NumTok(n) == CHOOSE tk \in DOMAIN NumberLit : NumberLit[tk] = n

ParseFail == [ok |-> FALSE, val |-> JNull, next |-> 0]
ParseOk(v, n) == [ok |-> TRUE, val |-> v, next |-> n]

RECURSIVE SkipWS(_, _)
SkipWS(toks, i) ==
    IF i <= Len(toks) /\ toks[i] \in WhiteSpace THEN SkipWS(toks, i + 1) ELSE i

TokAt(toks, i) == IF i <= Len(toks) THEN toks[i] ELSE "<eof>"

RECURSIVE ParseValue(_, _)
RECURSIVE ParseMembers(_, _, _)
RECURSIVE ParseElements(_, _, _)

\* One JSON value starting at or after position i.
ParseValue(toks, i) ==
    LET j == SkipWS(toks, i)
        tk == TokAt(toks, j)
    IN  CASE tk = "{" ->
               IF TokAt(toks, SkipWS(toks, j + 1)) = "}"
               THEN ParseOk(JMap(<<>>), SkipWS(toks, j + 1) + 1)
               ELSE ParseMembers(toks, j + 1, <<>>)
          [] tk = "[" ->
               IF TokAt(toks, SkipWS(toks, j + 1)) = "]"
               THEN ParseOk(JArr(<<>>), SkipWS(toks, j + 1) + 1)
               ELSE ParseElements(toks, j + 1, <<>>)
          [] tk \in DOMAIN StringLit -> ParseOk(JStr(StringLit[tk]), j + 1)
          [] tk \in DOMAIN NumberLit -> ParseOk(JNum(NumberLit[tk]), j + 1)
          [] tk = "true" -> ParseOk(JBool(TRUE), j + 1)
          [] tk = "false" -> ParseOk(JBool(FALSE), j + 1)
          [] tk = "null" -> ParseOk(JNull, j + 1)
          [] OTHER -> ParseFail

\* "key": value pairs up to the closing brace; a repeated key keeps the
\* last value, as the decoder's map assignment does.
ParseMembers(toks, i, acc) ==
    LET j == SkipWS(toks, i)
        key == TokAt(toks, j)
        c == SkipWS(toks, j + 1)
    IN  IF key \notin DOMAIN StringLit \/ TokAt(toks, c) # ":"
        THEN ParseFail
        ELSE LET v == ParseValue(toks, c + 1)
                 e == SkipWS(toks, v.next)
                 k == StringLit[key]
                 acc2 == [x \in DOMAIN acc \cup {k} |->
                             IF x = k THEN v.val ELSE acc[x]]
             IN  IF ~v.ok THEN ParseFail
                 ELSE IF TokAt(toks, e) = "," THEN ParseMembers(toks, e + 1, acc2)
                 ELSE IF TokAt(toks, e) = "}" THEN ParseOk(JMap(acc2), e + 1)
                 ELSE ParseFail

ParseElements(toks, i, acc) ==
    LET v == ParseValue(toks, i)
        e == SkipWS(toks, v.next)
    IN  IF ~v.ok THEN ParseFail
        ELSE IF TokAt(toks, e) = "," THEN ParseElements(toks, e + 1, Append(acc, v.val))
        ELSE IF TokAt(toks, e) = "]" THEN ParseOk(JArr(Append(acc, v.val)), e + 1)
        ELSE ParseFail

\* The scanner's checkValid: one value, then only white space.
ParseDocument(toks) ==
    LET v == ParseValue(toks, 1)
    IN  IF v.ok /\ SkipWS(toks, v.next) = Len(toks) + 1 THEN v ELSE ParseFail

SyntaxError == <<"invalid character or unexpected end of JSON input">>
UnmarshalTypeError == <<"json: cannot unmarshal value into Go value of type map[string]interface {}">>

\* json.Unmarshal(raw, &parsed) with parsed a nil map[string]interface{}:
\* a syntax error for text that is no JSON document, the map for an object,
\* a type error for an array, string, number or boolean, and for the
\* literal null no error and the map left nil.
Unmarshal(raw) ==
    LET d == ParseDocument(raw)
    IN  IF ~d.ok THEN [err |-> SyntaxError, parsed |-> Nil]
        ELSE IF d.val.t = "map" THEN [err |-> <<>>, parsed |-> d.val]
        ELSE IF d.val.t = "null" THEN [err |-> <<>>, parsed |-> Nil]
        ELSE [err |-> UnmarshalTypeError, parsed |-> Nil]

RECURSIVE Indent(_)
Indent(depth) == IF depth = 0 THEN <<>> ELSE <<"  ">> \o Indent(depth - 1)

RECURSIVE MarshalValue(_, _)
RECURSIVE MarshalMembers(_, _, _)
RECURSIVE MarshalItems(_, _)

\* json.MarshalIndent(value, "", "  ") at a nesting depth.
MarshalValue(v, depth) ==
    CASE v.t = "nil" -> <<"null">>
      [] v.t = "null" -> <<"null">>
      [] v.t = "bool" -> IF v.b THEN <<"true">> ELSE <<"false">>
      [] v.t = "num" -> <<NumTok(v.n)>>
      [] v.t = "str" -> <<KeyTok(v.s)>>
      [] v.t = "arr" ->
           IF v.items = <<>> THEN <<"[", "]">>
           ELSE <<"[", NL>> \o MarshalItems(v.items, depth + 1)
                    \o <<NL>> \o Indent(depth) \o <<"]">>
      [] v.t = "map" ->
           IF DOMAIN v.kv = {} THEN <<"{", "}">>
           ELSE <<"{", NL>> \o MarshalMembers(v.kv, 1, depth + 1)
                    \o <<NL>> \o Indent(depth) \o <<"}">>

\* The members of a map from position i of KeyOrder on, keys sorted.
MarshalMembers(kv, i, depth) ==
    IF i > Len(KeyOrder) THEN <<>>
    ELSE IF KeyOrder[i] \notin DOMAIN kv THEN MarshalMembers(kv, i + 1, depth)
    ELSE LET rest == MarshalMembers(kv, i + 1, depth)
         IN  Indent(depth) \o <<KeyTok(KeyOrder[i]), ":", SP>>
                 \o MarshalValue(kv[KeyOrder[i]], depth)
                 \o (IF rest = <<>> THEN <<>> ELSE <<",", NL>> \o rest)

MarshalItems(items, depth) ==
    IF items = <<>> THEN <<>>
    ELSE Indent(depth) \o MarshalValue(Head(items), depth)
             \o (IF Tail(items) = <<>> THEN <<>>
                 ELSE <<",", NL>> \o MarshalItems(Tail(items), depth))

\* toPrettyJSON: values decoded from JSON always marshal, so err is nil.
toPrettyJSON(value) == [text |-> MarshalValue(value, 0), err |-> Nil]

\* ------------------------------------------------------------ domain data

RECURSIVE Join(_, _)
\* strings.Join of a slice of strings.
Join(strs, sep) ==
    IF strs = <<>> THEN <<>>
    ELSE IF Len(strs) = 1 THEN <<strs[1]>>
    ELSE <<strs[1], sep>> \o Join(Tail(strs), sep)

\* The sample emails of the walk-through, bodies shortened.
buildSampleEmails ==
    << [MailID |-> "mail-1", ThreadID |-> "thread-team-lunch",
        FromName |-> <<"Jamie Lee">>, FromEmail |-> "jamie.lee@example.com",
        To |-> <<"user@example.com">>, CC |-> <<>>,
        Subject |-> <<"Team Lunch Catch-Up?">>,
        Body |-> <<"Hi Adrian,", NL, NL, "Are you free next week?", NL, NL,
                   "Thanks!", NL, "Jamie">>],
       [MailID |-> "mail-2", ThreadID |-> "thread-team-lunch",
        FromName |-> <<"Taylor Brooks">>, FromEmail |-> "taylor.brooks@example.com",
        To |-> <<"user@example.com", "jamie.lee@example.com">>, CC |-> <<>>,
        Subject |-> <<"Re: Team Lunch Catch-Up?">>,
        Body |-> <<"Hi both,", NL, NL, "Tuesday or Thursday?", NL, NL,
                   "Thanks,", NL, "Taylor">>],
       [MailID |-> "mail-3", ThreadID |-> "thread-team-lunch",
        FromName |-> <<"Jamie Lee">>, FromEmail |-> "jamie.lee@example.com",
        To |-> <<"taylor.brooks@example.com">>, CC |-> <<"user@example.com">>,
        Subject |-> <<"Re: Team Lunch Catch-Up?">>,
        Body |-> <<"Taylor,", NL, NL, "Let's go with Tuesday.", NL, NL,
                   "Thanks!", NL, "Jamie">>],
       [MailID |-> "mail-4", ThreadID |-> "thread-team-lunch",
        FromName |-> <<"Taylor Brooks">>, FromEmail |-> "taylor.brooks@example.com",
        To |-> <<"user@example.com", "jamie.lee@example.com">>, CC |-> <<>>,
        Subject |-> <<"Calendar Invite: Tuesday Lunch at Bella's Deli">>,
        Body |-> <<"Calendar invite sent.", SP, "See you both then!", NL, NL,
                   "Taylor">>] >>

\* Actions the gateway proposes for a submitted email.
ProposedPool ==
    { [ActionID |-> "act-1", Type |-> "draft_reply", Status |-> "pending",
       Payload |-> JMap([x \in {"k"} |-> JNum(1)]), Result |-> Nil],
      [ActionID |-> "act-2", Type |-> "calendar_event", Status |-> "pending",
       Payload |-> Nil, Result |-> Nil] }

\* Actions the gateway answers an approve, reject or modify call with.
UpdatedPool ==
    { [ActionID |-> "act-1", Type |-> "draft_reply", Status |-> "executed",
       Payload |-> JMap([x \in {"k"} |-> JNum(2)]),
       Result |-> JMap([x \in {"j"} |-> JStr("k")])],
      [ActionID |-> "act-3", Type |-> "calendar_event", Status |-> "rejected",
       Payload |-> Nil, Result |-> Nil] }

\* Classifications: probabilities in thousandths, and the decisions.
CategoryOrder == <<"needs_reply", "urgent">>
NoClassification == [Probabilities |-> <<>>, Decisions |-> <<>>]
UrgentClassification ==
    [Probabilities |-> ("urgent" :> 820) @@ ("needs_reply" :> 55),
     Decisions |-> ("urgent" :> TRUE)]

\* Summary and classification the gateway returns together.
PlainHead == [Summary |-> Nil, Classification |-> NoClassification]
SummarisedHead ==
    [Summary |-> [Text |-> <<"Lunch next week.">>],
     Classification |-> UrgentClassification]

RECURSIVE SeqsUpTo(_, _)
\* Sequences over S of length at most n.
SeqsUpTo(S, n) ==
    IF n = 0 THEN {<<>>}
    ELSE LET shorter == SeqsUpTo(S, n - 1)
         IN  shorter \cup {Append(q, x) : q \in shorter, x \in S}

\* What PostNewEmail can decode for an email (*NewEmailResponse): every
\* list of proposed actions with a summary and a classification, and the
\* lists of at most one action also without them.
Responses(e) ==
    { [MailID |-> e.MailID, Summary |-> SummarisedHead.Summary,
       ProposedActions |-> acts,
       Classification |-> SummarisedHead.Classification] :
         acts \in SeqsUpTo(ProposedPool, MaxActions) }
    \cup
    { [MailID |-> e.MailID, Summary |-> PlainHead.Summary,
       ProposedActions |-> acts,
       Classification |-> PlainHead.Classification] :
         acts \in SeqsUpTo(ProposedPool, 1) }

\* The errors a gateway call can surface (transport, status, decoding).
GatewayErrors ==
    { [msg |-> <<"post: context deadline exceeded">>],
      [msg |-> <<"post: status 500: internal error">>] }

\* What the payload editor can hold after the operator has typed.
EditorBuffers ==
    { <<"{", "\"k\"", ":", SP, "2", "}">>,
      <<"{", "invalid">>,
      <<"null">>,
      <<"[", "1", "]">>,
      <<"true">>,
      <<SP, NL>> }

\* ------------------------------------------------------ appModel helpers

\* Mutant: the length of the action list is not looked at.
hasActions_NoLenCheck(m) == m.response # Nil

hasActions(m) ==
    m.response # Nil /\ Len(m.response.ProposedActions) > 0

\* The action a *Action returned by actionAt points to, or Nil.
actionAt(m, index) ==
    IF m.response = Nil \/ index < 0 \/ index >= Len(m.response.ProposedActions)
    THEN Nil
    ELSE m.response.ProposedActions[index + 1]

currentActionRef(m) == actionAt(m, m.currentAction)

currentActionID(m) ==
    IF currentActionRef(m) # Nil THEN currentActionRef(m).ActionID ELSE ""

hasMoreEmails(m) == m.currentEmail + 1 < Len(m.emails)

maxInt(a, b) == IF a > b THEN a ELSE b

\* ------------------------------------------------------ content renderer

Digits == <<"0", "1", "2", "3", "4", "5", "6", "7", "8", "9">>

RECURSIVE Decimal(_)
\* fmt's %d of a natural number.
Decimal(n) ==
    IF n < 10 THEN <<Digits[n + 1]>>
    ELSE Decimal(n \div 10) \o <<Digits[(n % 10) + 1]>>

\* fmt's "%.1f%%" of 100 * p, p given in thousandths.
Percent(thousandths) ==
    Decimal(thousandths \div 10) \o <<".", Digits[(thousandths % 10) + 1], "%">>

labelledLine(label, value) == labelStyle(<<label>>) \o <<SP>> \o value

formatSender(e) ==
    IF TrimSpace(e.FromName) # <<>>
    THEN TrimSpace(e.FromName) \o <<SP, "<", e.FromEmail, ">">>
    ELSE <<e.FromEmail>>

formatAddressList(addresses) ==
    IF Len(addresses) = 0 THEN <<>> ELSE Join(addresses, ", ")

RECURSIVE IndentLines(_, _)
IndentLines(text, indent) ==
    IF text = <<>> THEN <<>>
    ELSE (IF Head(text) = NL THEN <<NL, indent>> ELSE <<Head(text)>>)
             \o IndentLines(Tail(text), indent)

\* Every line of the text prefixed by indent; an empty line is indent alone.
indentMultiline(text, indent) == <<indent>> \o IndentLines(text, indent)

renderEmailPreview(e) ==
    titleStyle(<<"Email Ready to Submit">>) \o <<NL, NL>>
        \o labelledLine("Mail ID:", <<e.MailID>>)
        \o (IF TrimSpace(e.Subject) # <<>>
            THEN <<NL>> \o labelledLine("Subject:", TrimSpace(e.Subject))
            ELSE <<>>)
        \o <<NL>> \o labelledLine("From:", formatSender(e))
        \o (IF formatAddressList(e.To) # <<>>
            THEN <<NL>> \o labelledLine("To:", formatAddressList(e.To))
            ELSE <<>>)
        \o (IF formatAddressList(e.CC) # <<>>
            THEN <<NL>> \o labelledLine("CC:", formatAddressList(e.CC))
            ELSE <<>>)
        \o <<NL, NL>> \o labelStyle(<<"Body:">>) \o <<NL>>
        \o indentMultiline(e.Body, "  ")

renderPreviewEmailContent(m) ==
    renderEmailPreview(m.email) \o <<NL, NL>>
        \o subtleTextStyle(IF TrimSpace(m.status) = <<>>
                           THEN previewInstruction
                           ELSE TrimSpace(m.status))

RECURSIVE ClassificationLines(_, _)
\* One line per category of CategoryOrder from position i on.
ClassificationLines(c, i) ==
    IF i > Len(CategoryOrder) THEN <<>>
    ELSE IF CategoryOrder[i] \notin DOMAIN c.Probabilities
    THEN ClassificationLines(c, i + 1)
    ELSE LET key == CategoryOrder[i]
             rest == ClassificationLines(c, i + 1)
             mark == IF key \in DOMAIN c.Decisions /\ c.Decisions[key]
                     THEN <<" (selected)">> ELSE <<>>
         IN  <<"- ", key, ": ">> \o Percent(c.Probabilities[key]) \o mark
                 \o (IF rest = <<>> THEN <<>> ELSE <<NL>> \o rest)

renderClassification(c) ==
    IF DOMAIN c.Probabilities = {} THEN <<"No classification data.">>
    ELSE ClassificationLines(c, 1)

renderSummaryContent(m) ==
    IF m.response = Nil THEN <<>>
    ELSE LET from == IF TrimSpace(m.email.FromName) # <<>>
                     THEN TrimSpace(m.email.FromName)
                              \o <<SP, "<", m.email.FromEmail, ">">>
                     ELSE <<m.email.FromEmail>>
             sm == m.response.Summary
             summary == IF sm # Nil /\ TrimSpace(sm.Text) # <<>>
                        THEN <<NL>> \o labelStyle(<<"Summary:">>) \o <<NL>> \o sm.Text
                        ELSE <<>>
         IN  titleStyle(<<"Email Summary">>) \o <<NL, NL>>
                 \o labelledLine("Mail ID:", <<m.response.MailID>>) \o <<NL>>
                 \o labelledLine("Subject:", m.email.Subject) \o <<NL>>
                 \o labelledLine("From:", from) \o <<NL>>
                 \o labelledLine("To:", Join(m.email.To, ", ")) \o summary
                 \o <<NL, NL>> \o labelStyle(<<"Classification:">>) \o <<NL>>
                 \o renderClassification(m.response.Classification) \o <<NL>>
                 \o subtleTextStyle(<<"Press Enter to review proposed actions. Use arrow keys to scroll.">>)

jsonBlock(title, value) ==
    <<NL>> \o labelStyle(<<title, ":">>) \o <<NL>> \o toPrettyJSON(value).text

renderCurrentActionContent(m) ==
    LET action == currentActionRef(m)
    IN  IF action = Nil THEN <<>>
        ELSE titleStyle(<<"Proposed Action">>) \o <<SP, "(">>
                 \o Decimal(m.currentAction + 1) \o <<"/">>
                 \o Decimal(Len(m.response.ProposedActions)) \o <<")", NL, NL>>
                 \o labelledLine("Action ID:", <<action.ActionID>>) \o <<NL>>
                 \o labelledLine("Type:", <<action.Type>>) \o <<NL>>
                 \o labelledLine("Status:", <<action.Status>>)
                 \o jsonBlock("Payload", action.Payload)
                 \o (IF action.Result # Nil THEN jsonBlock("Result", action.Result)
                     ELSE <<>>)
                 \o (IF m.status # <<>> THEN <<NL, NL>> \o subtleTextStyle(m.status)
                     ELSE <<>>)
                 \o <<NL, NL, "Choose: [a]pprove  [m]odify  [r]eject  [q]uit", NL,
                      "Use arrow keys or PgUp/PgDn to scroll.">>

renderPromptGeneralContent(m) ==
    titleStyle(<<"Preference Update">>) \o <<NL, NL>> \o m.status
        \o <<NL, NL, "Press 'y' to apply to general preferences, 'n' for per-recipient, or Enter for the default (No).">>

RECURSIVE FinalStatusLines(_)
FinalStatusLines(actions) ==
    IF actions = <<>> THEN <<>>
    ELSE <<"- ", Head(actions).ActionID, ": ", Head(actions).Status, NL>>
             \o FinalStatusLines(Tail(actions))

\* strings.TrimSuffix(s, "\n")
TrimSuffixNL(s) ==
    IF s # <<>> /\ s[Len(s)] = NL THEN SubSeq(s, 1, Len(s) - 1) ELSE s

renderFinalStatusContent(m) ==
    TrimSuffixNL(
        titleStyle(<<"Review Complete">>) \o <<NL, NL>>
            \o (IF m.response # Nil
                THEN FinalStatusLines(m.response.ProposedActions)
                         \o (IF Len(m.response.ProposedActions) > 0
                             THEN <<NL>> ELSE <<>>)
                ELSE <<>>)
            \o (IF m.status # <<>> THEN m.status \o <<NL>> ELSE <<>>)
            \o subtleTextStyle(
                   IF hasMoreEmails(m)
                   THEN <<"Press Enter to load the next email, or 'q' to exit. Use arrow keys to review the list.">>
                   ELSE <<"Press Enter or 'q' to exit. Use arrow keys to review the list.">>))

renderErrorContent(m) ==
    titleStyle(<<"Error">>) \o <<NL, NL>>
        \o (IF m.err # Nil THEN errorTextStyle(m.err.msg) \o <<NL, NL>> ELSE <<>>)
        \o subtleTextStyle(<<"Press Enter to exit.">>)

\* ---------------------------------------------------- scrollable viewport
\* bubbles/viewport as the engine uses it: content, geometry, YOffset.

maxYOffset(vp) == maxInt(0, LineCount(vp.content) - vp.Height)

SetYOffset(vp, n) ==
    [vp EXCEPT !.YOffset = IF n < 0 THEN 0
                           ELSE IF n > maxYOffset(vp) THEN maxYOffset(vp)
                           ELSE n]

GotoTop(vp) == [vp EXCEPT !.YOffset = 0]
GotoBottom(vp) == SetYOffset(vp, maxYOffset(vp))

LineDown(vp, n) ==
    IF vp.YOffset >= maxYOffset(vp) THEN vp ELSE SetYOffset(vp, vp.YOffset + n)

LineUp(vp, n) ==
    IF vp.YOffset <= 0 THEN vp ELSE SetYOffset(vp, vp.YOffset - n)

ViewDown(vp) == LineDown(vp, vp.Height)
ViewUp(vp) == LineUp(vp, vp.Height)

SetContent(vp, text) ==
    LET set == [vp EXCEPT !.content = text]
    IN  IF set.YOffset > LineCount(text) - 1 THEN GotoBottom(set) ELSE set

\* ------------------------------------------------------------ screen engine

viewUsesViewport(m) ==
    m.view \in {statePreviewEmail, stateSummary, stateReview,
                statePromptGeneral, stateDone, stateError}

currentViewContent(m) ==
    CASE m.view = statePreviewEmail -> renderPreviewEmailContent(m)
      [] m.view = stateSummary -> renderSummaryContent(m)
      [] m.view = stateReview -> renderCurrentActionContent(m)
      [] m.view = statePromptGeneral -> renderPromptGeneralContent(m)
      [] m.view = stateDone -> renderFinalStatusContent(m)
      [] m.view = stateError -> renderErrorContent(m)
      [] OTHER -> <<>>

\* Mutant: the scroll offset is kept when the content is replaced.
refreshViewport_KeepsOffset(m, reset) ==
    IF ~viewUsesViewport(m) THEN m
    ELSE [m EXCEPT !.viewport = SetContent(m.viewport, currentViewContent(m))]

refreshViewport(m, reset) ==
    IF ~viewUsesViewport(m) THEN m
    ELSE LET set == SetContent(m.viewport, currentViewContent(m))
         IN  [m EXCEPT !.viewport = IF reset THEN GotoTop(set) ELSE set]

setView(m, v, st) ==
    refreshViewport([m EXCEPT !.view = v, !.status = st], TRUE)

NoCmd == [kind |-> "none"]
Quit == [kind |-> "quit"]

\* Mutant: the error of the completion is not recorded.
fail_DropsError(m, e) ==
    [m |-> setView(m, stateError, <<>>), cmd |-> NoCmd]

fail(m, e) ==
    [m |-> setView([m EXCEPT !.err = e], stateError, <<>>), cmd |-> NoCmd]

\* Mutant: the pending edit of the previous email is kept.
prepareEmail_KeepsPending(m, index) ==
    IF index < 0 \/ index >= Len(m.emails) THEN m
    ELSE setView([m EXCEPT !.currentEmail = index,
                           !.email = m.emails[index + 1],
                           !.response = Nil,
                           !.currentAction = 0,
                           !.editorErr = <<>>,
                           !.err = Nil],
                 statePreviewEmail, previewInstruction)

\* Mutant: the action index of the previous email is kept.
prepareEmail_KeepsIndex(m, index) ==
    IF index < 0 \/ index >= Len(m.emails) THEN m
    ELSE setView([m EXCEPT !.currentEmail = index,
                           !.email = m.emails[index + 1],
                           !.response = Nil,
                           !.pending = Nil,
                           !.editorErr = <<>>,
                           !.err = Nil],
                 statePreviewEmail, previewInstruction)

prepareEmail(m, index) ==
    IF index < 0 \/ index >= Len(m.emails) THEN m
    ELSE setView([m EXCEPT !.currentEmail = index,
                           !.email = m.emails[index + 1],
                           !.response = Nil,
                           !.pending = Nil,
                           !.currentAction = 0,
                           !.editorErr = <<>>,
                           !.err = Nil],
                 statePreviewEmail, previewInstruction)

prepareNextEmail(m) ==
    IF m.currentEmail + 1 >= Len(m.emails) THEN m
    ELSE prepareEmail(m, m.currentEmail + 1)

\* The model newAppModel builds, before Init loads the sample emails.
newAppModel ==
    [view |-> stateLoading, email |-> Nil, emails |-> <<>>, currentEmail |-> 0,
     response |-> Nil, currentAction |-> 0, status |-> <<>>,
     editor |-> [value |-> <<>>, Width |-> 80, Height |-> 12, focus |-> FALSE],
     editorErr |-> <<>>, pending |-> Nil, err |-> Nil,
     viewport |-> [Width |-> 80, Height |-> 20, YOffset |-> 0, content |-> <<>>]]

\* appModel.Init: the sample emails, and the first one prepared.
appInit ==
    prepareEmail([newAppModel EXCEPT
                      !.emails = SubSeq(buildSampleEmails, 1, MaxEmails)], 0)

\* The gateway commands; each returns one message when its call ends.
loadSampleEmailCmd(e) == [kind |-> "submit", email |-> e]
approveActionCmd(index, actionID) ==
    [kind |-> "approve", index |-> index, actionID |-> actionID]
rejectActionCmd(index, actionID) ==
    [kind |-> "reject", index |-> index, actionID |-> actionID]
\* ModifyAction always sends record_preferences = true.
modifyActionCmd(index, actionID, payload, applyToGeneral) ==
    [kind |-> "modify", index |-> index, actionID |-> actionID,
     payload |-> payload, record_preferences |-> TRUE,
     apply_to_general_preferences |-> applyToGeneral]

GatewayKinds == {"submit", "approve", "reject", "modify"}

\* Mutant: the preview stays on screen while the email is submitted.
beginEmailSubmission_KeepsView(m) ==
    [m |-> [m EXCEPT !.status = <<"Submitting email to the agents...">>],
     cmd |-> loadSampleEmailCmd(m.email)]

beginEmailSubmission(m) ==
    [m |-> setView(m, stateLoading, <<"Submitting email to the agents...">>),
     cmd |-> loadSampleEmailCmd(m.email)]

\* Mutant: the screen is left as it is while the call is in flight.
beginActionUpdate_KeepsView(m, message, cmd) ==
    [m |-> [m EXCEPT !.status = message], cmd |-> cmd]

beginActionUpdate(m, message, cmd) ==
    [m |-> setView(m, stateSubmittingAction, message), cmd |-> cmd]

\* Mutant: the modified payload is sent for the first action.
submitModifiedAction_FirstAction(m, apply) ==
    beginActionUpdate(m, <<"Submitting modified action...">>,
        modifyActionCmd(0, actionAt(m, 0).ActionID, m.pending, apply))

submitModifiedAction(m, apply) ==
    beginActionUpdate(m, <<"Submitting modified action...">>,
        modifyActionCmd(m.currentAction, currentActionID(m), m.pending, apply))

\* Mutant: the inline error of the previous edit is kept.
enterPayloadEditor_KeepsError(m) ==
    LET action == currentActionRef(m)
        pretty == toPrettyJSON(action.Payload)
    IN  IF action = Nil THEN [m |-> m, cmd |-> NoCmd]
        ELSE IF pretty.err # Nil THEN fail(m, pretty.err)
        ELSE [m |-> [m EXCEPT !.editor.value = pretty.text,
                              !.editor.focus = TRUE,
                              !.view = stateEditingPayload],
              cmd |-> NoCmd]

enterPayloadEditor(m) ==
    LET action == currentActionRef(m)
        pretty == toPrettyJSON(action.Payload)
    IN  IF action = Nil THEN [m |-> m, cmd |-> NoCmd]
        ELSE IF pretty.err # Nil THEN fail(m, pretty.err)
        ELSE [m |-> [m EXCEPT !.editor.value = pretty.text,
                              !.editor.focus = TRUE,
                              !.editorErr = <<>>,
                              !.view = stateEditingPayload],
              cmd |-> NoCmd]

\* --------------------------------------------------------------- messages

KeyTypes ==
    {"KeyCtrlC", "KeyEnter", "KeyEsc", "KeyCtrlS", "KeyUp", "KeyDown",
     "KeyPgUp", "KeyPgDown", "KeyHome", "KeyEnd", "KeyTab"}
RuneStrings == {"a", "A", "r", "m", "q", "Q", "y", "Y", "n", "x"}

KeyMsg(type, runes) == [type |-> "KeyMsg", Type |-> type, Runes |-> runes]
KeyMsgs ==
    {KeyMsg(ty, "") : ty \in KeyTypes} \cup {KeyMsg("KeyRunes", r) : r \in RuneStrings}

WindowSizeMsg(w, h) == [type |-> "WindowSizeMsg", Width |-> w, Height |-> h]
\* The terminal sizes a resize can report; the first is ignored by the
\* guard, the second leaves a viewport shorter than the longer screens.
WindowSizeMsgs == {WindowSizeMsg(0, 0), WindowSizeMsg(40, 14)}

newEmailMsg(e, resp, error) ==
    [type |-> "newEmailMsg", email |-> e, resp |-> resp, err |-> error]
actionUpdatedMsg(index, action, error) ==
    [type |-> "actionUpdatedMsg", index |-> index, action |-> action, err |-> error]

\* The zero Action a failed gateway call returns beside its error.
ZeroAction ==
    [ActionID |-> "", Type |-> "", Status |-> "", Payload |-> Nil, Result |-> Nil]

\* What the textarea can hold after it has processed a key: typing keys
\* edit the buffer, the other keys leave the text as it is.
TextareaOutcomes(m, msg) ==
    IF m.view = stateEditingPayload /\ msg.Type \in {"KeyRunes", "KeyEnter"}
    THEN EditorBuffers
    ELSE {m.editor.value}

\* --------------------------------------------------------------- handlers

\* Mutant: the resize re-enters the screen through setView.
handleWindowSize_SetView(m, msg) ==
    IF msg.Width <= 0 \/ msg.Height <= 0 THEN m
    ELSE LET vh == maxInt(5, msg.Height - 2)
         IN  setView([m EXCEPT !.viewport.Width = msg.Width,
                               !.viewport.Height = vh,
                               !.editor.Width = maxInt(20, msg.Width - 4),
                               !.editor.Height = maxInt(5, vh - 2)],
                     m.view, <<>>)

handleWindowSize(m, msg) ==
    IF msg.Width <= 0 \/ msg.Height <= 0 THEN m
    ELSE LET vh == maxInt(5, msg.Height - 2)
         IN  refreshViewport(
                 [m EXCEPT !.viewport.Width = msg.Width,
                           !.viewport.Height = vh,
                           !.editor.Width = maxInt(20, msg.Width - 4),
                           !.editor.Height = maxInt(5, vh - 2)],
                 TRUE)

\* Mutant: a scroll key also clears the status line.
handleViewportScroll_ClearsStatus(m, msg) ==
    LET vp == m.viewport
        scrolled(v) == [m |-> [m EXCEPT !.viewport = v, !.status = <<>>],
                        handled |-> TRUE]
    IN  CASE msg.Type = "KeyUp" -> scrolled(LineUp(vp, 1))
          [] msg.Type = "KeyDown" -> scrolled(LineDown(vp, 1))
          [] msg.Type = "KeyPgUp" -> scrolled(ViewUp(vp))
          [] msg.Type = "KeyPgDown" -> scrolled(ViewDown(vp))
          [] msg.Type = "KeyHome" -> scrolled(GotoTop(vp))
          [] msg.Type = "KeyEnd" -> scrolled(GotoBottom(vp))
          [] OTHER -> [m |-> m, handled |-> FALSE]

\* The viewport after a scroll key, and whether the key was a scroll key.
handleViewportScroll(m, msg) ==
    LET vp == m.viewport
        scrolled(v) == [m |-> [m EXCEPT !.viewport = v], handled |-> TRUE]
    IN  CASE msg.Type = "KeyUp" -> scrolled(LineUp(vp, 1))
          [] msg.Type = "KeyDown" -> scrolled(LineDown(vp, 1))
          [] msg.Type = "KeyPgUp" -> scrolled(ViewUp(vp))
          [] msg.Type = "KeyPgDown" -> scrolled(ViewDown(vp))
          [] msg.Type = "KeyHome" -> scrolled(GotoTop(vp))
          [] msg.Type = "KeyEnd" -> scrolled(GotoBottom(vp))
          [] OTHER -> [m |-> m, handled |-> FALSE]

handlePreviewKey(m, msg) ==
    CASE msg.Type = "KeyEnter" -> beginEmailSubmission(m)
      [] msg.Type = "KeyRunes" /\ ToLower(msg.Runes) = "q" -> [m |-> m, cmd |-> Quit]
      [] OTHER -> [m |-> m, cmd |-> NoCmd]

handleReviewKey(m, msg) ==
    LET action == currentActionRef(m)
        choice == ToLower(msg.Runes)
    IN  IF action = Nil \/ msg.Type # "KeyRunes" THEN [m |-> m, cmd |-> NoCmd]
        ELSE CASE choice = "a" ->
                    beginActionUpdate(m, <<"Approving action...">>,
                        approveActionCmd(m.currentAction, action.ActionID))
               [] choice = "r" ->
                    beginActionUpdate(m, <<"Rejecting action...">>,
                        rejectActionCmd(m.currentAction, action.ActionID))
               [] choice = "m" -> enterPayloadEditor(m)
               [] choice = "q" -> [m |-> m, cmd |-> Quit]
               [] OTHER -> [m |-> m, cmd |-> NoCmd]

\* Mutant: the error of json.Unmarshal is not looked at.
handlePayloadKey_IgnoresError(m, msg, typed) ==
    LET ed == [m EXCEPT !.editor.value = typed]
        raw == TrimSpace(typed)
        u == Unmarshal(raw)
    IN  CASE msg.Type = "KeyCtrlS" ->
               IF raw = <<>>
               THEN [m |-> [ed EXCEPT !.editorErr = <<"Payload cannot be empty.">>],
                     cmd |-> NoCmd]
               ELSE [m |-> setView([ed EXCEPT !.pending = u.parsed,
                                              !.editorErr = <<>>],
                                   statePromptGeneral,
                                   <<"Apply extracted preferences to general profile? (y/N)">>),
                     cmd |-> NoCmd]
          [] msg.Type = "KeyEsc" ->
               [m |-> setView(ed, stateReview,
                              subtleTextStyle(<<"Modification cancelled.">>)),
                cmd |-> NoCmd]
          [] OTHER -> [m |-> ed, cmd |-> NoCmd]

\* Mutant: Esc keeps the parsed buffer as the pending edit.
handlePayloadKey_EscKeepsEdit(m, msg, typed) ==
    LET ed == [m EXCEPT !.editor.value = typed]
        raw == TrimSpace(typed)
        u == Unmarshal(raw)
    IN  CASE msg.Type = "KeyCtrlS" ->
               IF raw = <<>>
               THEN [m |-> [ed EXCEPT !.editorErr = <<"Payload cannot be empty.">>],
                     cmd |-> NoCmd]
               ELSE IF u.err # <<>>
               THEN [m |-> [ed EXCEPT !.editorErr = <<"Invalid JSON: ">> \o u.err],
                     cmd |-> NoCmd]
               ELSE [m |-> setView([ed EXCEPT !.pending = u.parsed,
                                              !.editorErr = <<>>],
                                   statePromptGeneral,
                                   <<"Apply extracted preferences to general profile? (y/N)">>),
                     cmd |-> NoCmd]
          [] msg.Type = "KeyEsc" ->
               [m |-> setView([ed EXCEPT !.pending = u.parsed], stateReview,
                              subtleTextStyle(<<"Modification cancelled.">>)),
                cmd |-> NoCmd]
          [] OTHER -> [m |-> ed, cmd |-> NoCmd]

\* typed: the buffer the textarea holds after its own Update of the key.
handlePayloadKey(m, msg, typed) ==
    LET ed == [m EXCEPT !.editor.value = typed]
        raw == TrimSpace(typed)
        u == Unmarshal(raw)
    IN  CASE msg.Type = "KeyCtrlS" ->
               IF raw = <<>>
               THEN [m |-> [ed EXCEPT !.editorErr = <<"Payload cannot be empty.">>],
                     cmd |-> NoCmd]
               ELSE IF u.err # <<>>
               THEN [m |-> [ed EXCEPT !.editorErr = <<"Invalid JSON: ">> \o u.err],
                     cmd |-> NoCmd]
               ELSE [m |-> setView([ed EXCEPT !.pending = u.parsed,
                                              !.editorErr = <<>>],
                                   statePromptGeneral,
                                   <<"Apply extracted preferences to general profile? (y/N)">>),
                     cmd |-> NoCmd]
          [] msg.Type = "KeyEsc" ->
               [m |-> setView(ed, stateReview,
                              subtleTextStyle(<<"Modification cancelled.">>)),
                cmd |-> NoCmd]
          [] OTHER -> [m |-> ed, cmd |-> NoCmd]

\* Mutant: the default answer of the prompt is yes.
handlePromptKey_DefaultYes(m, msg) ==
    CASE msg.Type = "KeyRunes" /\ ToLower(msg.Runes) = "y" -> submitModifiedAction(m, TRUE)
      [] msg.Type = "KeyRunes" /\ ToLower(msg.Runes) = "n" -> submitModifiedAction(m, FALSE)
      [] msg.Type = "KeyEnter" -> submitModifiedAction(m, TRUE)
      [] OTHER -> [m |-> m, cmd |-> NoCmd]

handlePromptKey(m, msg) ==
    CASE msg.Type = "KeyRunes" /\ ToLower(msg.Runes) = "y" -> submitModifiedAction(m, TRUE)
      [] msg.Type = "KeyRunes" /\ ToLower(msg.Runes) = "n" -> submitModifiedAction(m, FALSE)
      [] msg.Type = "KeyEnter" -> submitModifiedAction(m, FALSE)
      [] OTHER -> [m |-> m, cmd |-> NoCmd]

\* Mutant: a key pressed on the Error screen submits the email again.
handleKeyMsg_ErrorRetries(m, msg, typed) ==
    IF msg.Type = "KeyCtrlC" THEN [m |-> m, cmd |-> Quit]
    ELSE IF viewUsesViewport(m) /\ handleViewportScroll(m, msg).handled
    THEN [m |-> handleViewportScroll(m, msg).m, cmd |-> NoCmd]
    ELSE CASE m.view = statePreviewEmail -> handlePreviewKey(m, msg)
           [] m.view = stateSummary ->
                IF msg.Type = "KeyEnter"
                THEN [m |-> setView([m EXCEPT !.currentAction = 0], stateReview, <<>>),
                      cmd |-> NoCmd]
                ELSE [m |-> m, cmd |-> NoCmd]
           [] m.view = stateReview -> handleReviewKey(m, msg)
           [] m.view = stateEditingPayload -> handlePayloadKey(m, msg, typed)
           [] m.view = statePromptGeneral -> handlePromptKey(m, msg)
           [] m.view = stateDone ->
                IF msg.Type = "KeyEnter"
                THEN IF hasMoreEmails(m)
                     THEN [m |-> prepareNextEmail(m), cmd |-> NoCmd]
                     ELSE [m |-> m, cmd |-> Quit]
                ELSE IF msg.Type = "KeyRunes" /\ ToLower(msg.Runes) = "q"
                THEN [m |-> m, cmd |-> Quit]
                ELSE [m |-> m, cmd |-> NoCmd]
           [] m.view = stateError ->
                IF msg.Type = "KeyEnter" THEN [m |-> m, cmd |-> Quit]
                ELSE IF msg.Type = "KeyRunes" /\ ToLower(msg.Runes) = "r"
                THEN beginEmailSubmission(m)
                ELSE [m |-> m, cmd |-> NoCmd]
           [] OTHER -> [m |-> m, cmd |-> NoCmd]

\* Mutant: the Done screen takes Enter only.
handleKeyMsg_DoneEnterOnly(m, msg, typed) ==
    IF msg.Type = "KeyCtrlC" THEN [m |-> m, cmd |-> Quit]
    ELSE IF viewUsesViewport(m) /\ handleViewportScroll(m, msg).handled
    THEN [m |-> handleViewportScroll(m, msg).m, cmd |-> NoCmd]
    ELSE CASE m.view = statePreviewEmail -> handlePreviewKey(m, msg)
           [] m.view = stateSummary ->
                IF msg.Type = "KeyEnter"
                THEN [m |-> setView([m EXCEPT !.currentAction = 0], stateReview, <<>>),
                      cmd |-> NoCmd]
                ELSE [m |-> m, cmd |-> NoCmd]
           [] m.view = stateReview -> handleReviewKey(m, msg)
           [] m.view = stateEditingPayload -> handlePayloadKey(m, msg, typed)
           [] m.view = statePromptGeneral -> handlePromptKey(m, msg)
           [] m.view = stateDone ->
                IF msg.Type = "KeyEnter"
                THEN IF hasMoreEmails(m)
                     THEN [m |-> prepareNextEmail(m), cmd |-> NoCmd]
                     ELSE [m |-> m, cmd |-> Quit]
                ELSE [m |-> m, cmd |-> NoCmd]
           [] m.view = stateError ->
                IF msg.Type = "KeyEnter" THEN [m |-> m, cmd |-> Quit]
                ELSE [m |-> m, cmd |-> NoCmd]
           [] OTHER -> [m |-> m, cmd |-> NoCmd]

\* Mutant: the editor receives Ctrl+C like any other key.
handleKeyMsg_EditorTakesCtrlC(m, msg, typed) ==
    IF msg.Type = "KeyCtrlC" /\ m.view # stateEditingPayload
    THEN [m |-> m, cmd |-> Quit]
    ELSE IF viewUsesViewport(m) /\ handleViewportScroll(m, msg).handled
    THEN [m |-> handleViewportScroll(m, msg).m, cmd |-> NoCmd]
    ELSE CASE m.view = statePreviewEmail -> handlePreviewKey(m, msg)
           [] m.view = stateSummary ->
                IF msg.Type = "KeyEnter"
                THEN [m |-> setView([m EXCEPT !.currentAction = 0], stateReview, <<>>),
                      cmd |-> NoCmd]
                ELSE [m |-> m, cmd |-> NoCmd]
           [] m.view = stateReview -> handleReviewKey(m, msg)
           [] m.view = stateEditingPayload -> handlePayloadKey(m, msg, typed)
           [] m.view = statePromptGeneral -> handlePromptKey(m, msg)
           [] m.view = stateDone ->
                IF msg.Type = "KeyEnter"
                THEN IF hasMoreEmails(m)
                     THEN [m |-> prepareNextEmail(m), cmd |-> NoCmd]
                     ELSE [m |-> m, cmd |-> Quit]
                ELSE IF msg.Type = "KeyRunes" /\ ToLower(msg.Runes) = "q"
                THEN [m |-> m, cmd |-> Quit]
                ELSE [m |-> m, cmd |-> NoCmd]
           [] m.view = stateError ->
                IF msg.Type = "KeyEnter" THEN [m |-> m, cmd |-> Quit]
                ELSE [m |-> m, cmd |-> NoCmd]
           [] OTHER -> [m |-> m, cmd |-> NoCmd]

\* Mutant: the quit key is taken on the screens without a handler too.
handleKeyMsg_QuitAnywhere(m, msg, typed) ==
    IF msg.Type = "KeyCtrlC" THEN [m |-> m, cmd |-> Quit]
    ELSE IF viewUsesViewport(m) /\ handleViewportScroll(m, msg).handled
    THEN [m |-> handleViewportScroll(m, msg).m, cmd |-> NoCmd]
    ELSE CASE m.view = statePreviewEmail -> handlePreviewKey(m, msg)
           [] m.view = stateSummary ->
                IF msg.Type = "KeyEnter"
                THEN [m |-> setView([m EXCEPT !.currentAction = 0], stateReview, <<>>),
                      cmd |-> NoCmd]
                ELSE [m |-> m, cmd |-> NoCmd]
           [] m.view = stateReview -> handleReviewKey(m, msg)
           [] m.view = stateEditingPayload -> handlePayloadKey(m, msg, typed)
           [] m.view = statePromptGeneral -> handlePromptKey(m, msg)
           [] m.view = stateDone ->
                IF msg.Type = "KeyEnter"
                THEN IF hasMoreEmails(m)
                     THEN [m |-> prepareNextEmail(m), cmd |-> NoCmd]
                     ELSE [m |-> m, cmd |-> Quit]
                ELSE IF msg.Type = "KeyRunes" /\ ToLower(msg.Runes) = "q"
                THEN [m |-> m, cmd |-> Quit]
                ELSE [m |-> m, cmd |-> NoCmd]
           [] m.view = stateError ->
                IF msg.Type = "KeyEnter" THEN [m |-> m, cmd |-> Quit]
                ELSE [m |-> m, cmd |-> NoCmd]
           [] OTHER ->
                IF msg.Type = "KeyRunes" /\ ToLower(msg.Runes) = "q"
                THEN [m |-> m, cmd |-> Quit]
                ELSE [m |-> m, cmd |-> NoCmd]

handleKeyMsg(m, msg, typed) ==
    IF msg.Type = "KeyCtrlC" THEN [m |-> m, cmd |-> Quit]
    ELSE IF viewUsesViewport(m) /\ handleViewportScroll(m, msg).handled
    THEN [m |-> handleViewportScroll(m, msg).m, cmd |-> NoCmd]
    ELSE CASE m.view = statePreviewEmail -> handlePreviewKey(m, msg)
           [] m.view = stateSummary ->
                IF msg.Type = "KeyEnter"
                THEN [m |-> setView([m EXCEPT !.currentAction = 0], stateReview, <<>>),
                      cmd |-> NoCmd]
                ELSE [m |-> m, cmd |-> NoCmd]
           [] m.view = stateReview -> handleReviewKey(m, msg)
           [] m.view = stateEditingPayload -> handlePayloadKey(m, msg, typed)
           [] m.view = statePromptGeneral -> handlePromptKey(m, msg)
           [] m.view = stateDone ->
                IF msg.Type = "KeyEnter"
                THEN IF hasMoreEmails(m)
                     THEN [m |-> prepareNextEmail(m), cmd |-> NoCmd]
                     ELSE [m |-> m, cmd |-> Quit]
                ELSE IF msg.Type = "KeyRunes" /\ ToLower(msg.Runes) = "q"
                THEN [m |-> m, cmd |-> Quit]
                ELSE [m |-> m, cmd |-> NoCmd]
           [] m.view = stateError ->
                IF msg.Type = "KeyEnter" THEN [m |-> m, cmd |-> Quit]
                ELSE [m |-> m, cmd |-> NoCmd]
           [] OTHER -> [m |-> m, cmd |-> NoCmd]

\* Mutant: the installed Submission Result is shown without the check
\* that it has actions.
updateNewEmail_SkipsCheck(m, msg) ==
    IF msg.err # Nil THEN fail(m, msg.err)
    ELSE LET installed == [m EXCEPT !.email = msg.email, !.response = msg.resp]
         IN  [m |-> setView(installed, stateSummary, <<>>),
              cmd |-> NoCmd]

\* Update, case newEmailMsg.
updateNewEmail(m, msg) ==
    IF msg.err # Nil THEN fail(m, msg.err)
    ELSE LET installed == [m EXCEPT !.email = msg.email, !.response = msg.resp]
         IN  [m |-> IF hasActions(installed)
                    THEN setView(installed, stateSummary, <<>>)
                    ELSE setView(installed, stateDone, <<"No actions to review.">>),
              cmd |-> NoCmd]

\* Mutant: the review ends one action early.
updateActionUpdated_SkipsLast(m, msg) ==
    IF msg.err # Nil THEN fail(m, msg.err)
    ELSE LET written ==
                 IF actionAt(m, msg.index) # Nil
                 THEN [m EXCEPT !.response.ProposedActions[msg.index + 1] = msg.action]
                 ELSE m
         IN  [m |-> IF actionAt(written, msg.index + 2) # Nil
                    THEN setView([written EXCEPT !.currentAction = msg.index + 1],
                                 stateReview,
                                 successStyle(<<"Action updated successfully.">>))
                    ELSE setView(written, stateDone,
                                 successStyle(<<"All actions reviewed.">>)),
              cmd |-> NoCmd]

\* Mutant: the index advances without the range check.
updateActionUpdated_NoRangeCheck(m, msg) ==
    IF msg.err # Nil THEN fail(m, msg.err)
    ELSE LET written ==
                 IF actionAt(m, msg.index) # Nil
                 THEN [m EXCEPT !.response.ProposedActions[msg.index + 1] = msg.action]
                 ELSE m
         IN  [m |-> setView([written EXCEPT !.currentAction = msg.index + 1],
                            stateReview,
                            successStyle(<<"Action updated successfully.">>)),
              cmd |-> NoCmd]

\* Mutant: the returned Action is not written into the Submission Result.
updateActionUpdated_NoWrite(m, msg) ==
    IF msg.err # Nil THEN fail(m, msg.err)
    ELSE [m |-> IF actionAt(m, msg.index + 1) # Nil
                THEN setView([m EXCEPT !.currentAction = msg.index + 1],
                             stateReview,
                             successStyle(<<"Action updated successfully.">>))
                ELSE setView(m, stateDone,
                             successStyle(<<"All actions reviewed.">>)),
          cmd |-> NoCmd]

\* Mutant: a failed call is sent again instead of being reported.
updateActionUpdated_Retries(m, msg) ==
    IF msg.err # Nil
    THEN beginActionUpdate(m, <<"Submitting approval...">>,
                           approveActionCmd(msg.index, currentActionID(m)))
    ELSE LET written ==
                 IF actionAt(m, msg.index) # Nil
                 THEN [m EXCEPT !.response.ProposedActions[msg.index + 1] = msg.action]
                 ELSE m
         IN  [m |-> IF actionAt(written, msg.index + 1) # Nil
                    THEN setView([written EXCEPT !.currentAction = msg.index + 1],
                                 stateReview,
                                 successStyle(<<"Action updated successfully.">>))
                    ELSE setView(written, stateDone,
                                 successStyle(<<"All actions reviewed.">>)),
              cmd |-> NoCmd]

\* Mutant: the review returns to the action just completed.
updateActionUpdated_StaysOnIndex(m, msg) ==
    IF msg.err # Nil THEN fail(m, msg.err)
    ELSE LET written ==
                 IF actionAt(m, msg.index) # Nil
                 THEN [m EXCEPT !.response.ProposedActions[msg.index + 1] = msg.action]
                 ELSE m
         IN  [m |-> IF actionAt(written, msg.index + 1) # Nil
                    THEN setView(written, stateReview,
                                 successStyle(<<"Action updated successfully.">>))
                    ELSE setView(written, stateDone,
                                 successStyle(<<"All actions reviewed.">>)),
              cmd |-> NoCmd]

\* Update, case actionUpdatedMsg.
updateActionUpdated(m, msg) ==
    IF msg.err # Nil THEN fail(m, msg.err)
    ELSE LET written ==
                 IF actionAt(m, msg.index) # Nil
                 THEN [m EXCEPT !.response.ProposedActions[msg.index + 1] = msg.action]
                 ELSE m
         IN  [m |-> IF actionAt(written, msg.index + 1) # Nil
                    THEN setView([written EXCEPT !.currentAction = msg.index + 1],
                                 stateReview,
                                 successStyle(<<"Action updated successfully.">>))
                    ELSE setView(written, stateDone,
                                 successStyle(<<"All actions reviewed.">>)),
              cmd |-> NoCmd]

Update(m, msg, typed) ==
    CASE msg.type = "WindowSizeMsg" -> [m |-> handleWindowSize(m, msg), cmd |-> NoCmd]
      [] msg.type = "KeyMsg" -> handleKeyMsg(m, msg, typed)
      [] msg.type = "newEmailMsg" -> updateNewEmail(m, msg)
      [] msg.type = "actionUpdatedMsg" -> updateActionUpdated(m, msg)
      [] OTHER -> [m |-> m, cmd |-> NoCmd]

\* ------------------------------------------------------------ state machine

\* The appModel held in the variables.
M ==
    [view |-> view, email |-> email, emails |-> emails,
     currentEmail |-> currentEmail, response |-> response,
     currentAction |-> currentAction, status |-> status, editor |-> editor,
     editorErr |-> editorErr, pending |-> pending, err |-> err,
     viewport |-> viewport]

Init ==
    /\ view = appInit.view
    /\ email = appInit.email
    /\ emails = appInit.emails
    /\ currentEmail = appInit.currentEmail
    /\ response = appInit.response
    /\ currentAction = appInit.currentAction
    /\ status = appInit.status
    /\ editor = appInit.editor
    /\ editorErr = appInit.editorErr
    /\ pending = appInit.pending
    /\ err = appInit.err
    /\ viewport = appInit.viewport
    /\ inflight = <<>>
    /\ running = TRUE
    /\ completions = 0
    /\ advances = 0
    /\ doneEntries = 0
    /\ visited = {appInit.view}
    /\ submits = [e \in 0..(Len(appInit.emails) - 1) |-> 0]

\* The sequence without its i-th element.
RemoveAt(q, i) == SubSeq(q, 1, i - 1) \o SubSeq(q, i + 1, Len(q))

\* One pass of the event loop: Update has returned r = (model, cmd); the
\* commands still in flight are rest, and ok says the message was a
\* successful action completion.  A gateway command joins the commands in
\* flight; tea.Quit ends the program, after which no message is processed
\* and the commands still in flight are abandoned.  The spinner's tick
\* commands and messages touch appModel.spinner only and are left out.
Loop(r, rest, ok) ==
    LET fresh == r.m.currentEmail # currentEmail
    IN  /\ view' = r.m.view
        /\ email' = r.m.email
        /\ emails' = r.m.emails
        /\ currentEmail' = r.m.currentEmail
        /\ response' = r.m.response
        /\ currentAction' = r.m.currentAction
        /\ status' = r.m.status
        /\ editor' = r.m.editor
        /\ editorErr' = r.m.editorErr
        /\ pending' = r.m.pending
        /\ err' = r.m.err
        /\ viewport' = r.m.viewport
        /\ inflight' = IF r.cmd.kind \in GatewayKinds THEN Append(rest, r.cmd) ELSE rest
        /\ running' = (r.cmd.kind # "quit")
        /\ completions' = IF fresh THEN 0 ELSE completions + (IF ok THEN 1 ELSE 0)
        /\ advances' = IF fresh THEN 0
                       ELSE advances + (IF r.m.currentAction # currentAction THEN 1 ELSE 0)
        /\ doneEntries' = IF fresh THEN 0
                          ELSE doneEntries
                                   + (IF view # stateDone /\ r.m.view = stateDone
                                      THEN 1 ELSE 0)
        /\ visited' = IF fresh THEN {r.m.view} ELSE visited \cup {r.m.view}
        /\ submits' = IF r.cmd.kind = "submit"
                      THEN [submits EXCEPT ![r.m.currentEmail] = @ + 1]
                      ELSE submits

\* The terminal reports a new size.
Resize(msg) ==
    /\ running
    /\ \E r \in {Update(M, msg, editor.value)} :
           Loop(r, inflight, FALSE)

\* The operator presses a key.
Key(msg, typed) ==
    /\ running
    /\ \E r \in {Update(M, msg, typed)} :
           Loop(r, inflight, FALSE)

\* The submit-email call of command i ends with a decoded response.
SubmitOk(i, resp) ==
    /\ running
    /\ inflight[i].kind = "submit"
    /\ \E r \in {Update(M, newEmailMsg(inflight[i].email, resp, Nil), editor.value)} :
           Loop(r, RemoveAt(inflight, i), FALSE)

\* The submit-email call of command i fails or times out.
SubmitFail(i, e) ==
    /\ running
    /\ inflight[i].kind = "submit"
    /\ \E r \in {Update(M, newEmailMsg(inflight[i].email, Nil, e), editor.value)} :
           Loop(r, RemoveAt(inflight, i), FALSE)

\* The approve, reject or modify call of command i ends with an Action.
ActionOk(i, action) ==
    /\ running
    /\ inflight[i].kind \in {"approve", "reject", "modify"}
    /\ \E r \in {Update(M, actionUpdatedMsg(inflight[i].index, action, Nil), editor.value)} :
           Loop(r, RemoveAt(inflight, i), TRUE)

\* The approve, reject or modify call of command i fails or times out.
ActionFail(i, e) ==
    /\ running
    /\ inflight[i].kind \in {"approve", "reject", "modify"}
    /\ \E r \in {Update(M, actionUpdatedMsg(inflight[i].index, ZeroAction, e), editor.value)} :
           Loop(r, RemoveAt(inflight, i), FALSE)

\* Positions of the in-flight commands of the given kinds.
InFlight(kinds) == {i \in 1..Len(inflight) : inflight[i].kind \in kinds}

Next ==
    \/ \E msg \in WindowSizeMsgs : Resize(msg)
    \/ \E msg \in KeyMsgs : \E typed \in TextareaOutcomes(M, msg) : Key(msg, typed)
    \/ \E i \in InFlight({"submit"}) : \E resp \in Responses(inflight[i].email) : SubmitOk(i, resp)
    \/ \E i \in InFlight({"submit"}) : \E e \in GatewayErrors : SubmitFail(i, e)
    \/ \E i \in InFlight({"approve", "reject", "modify"}) : \E action \in UpdatedPool : ActionOk(i, action)
    \/ \E i \in InFlight({"approve", "reject", "modify"}) : \E e \in GatewayErrors : ActionFail(i, e)

Spec == Init /\ [][Next]_vars

\* The message of some command in flight is delivered to Update.
Deliver ==
    \/ \E i \in InFlight({"submit"}) :
           \/ \E e \in GatewayErrors : SubmitFail(i, e)
           \/ \E resp \in Responses(inflight[i].email) : SubmitOk(i, resp)
    \/ \E i \in InFlight({"approve", "reject", "modify"}) :
           \/ \E e \in GatewayErrors : ActionFail(i, e)
           \/ \E action \in UpdatedPool : ActionOk(i, action)

\* Every command runs under context.WithTimeout(requestTimeout) and
\* returns its message when the call ends or times out; the runtime
\* delivers the message to Update while the program runs.
FairSpec == Spec /\ WF_vars(Deliver)

\* ----------------------------------------------------------------- claims

\* Number of proposed actions of the installed Submission Result.
NumActions == IF response = Nil THEN 0 ELSE Len(response.ProposedActions)

\* C1 as stated: with N >= 1 proposed actions, when the review is done the
\* action index has advanced exactly N times, after N completions and one
\* entry into Done.
C1_AdvancesNTimes ==
    (view = stateDone /\ NumActions >= 1) =>
        (completions = NumActions /\ advances = NumActions /\ doneEntries = 1)

\* C1 amended: with N >= 1 proposed actions the index advances once per
\* successful completion that has a next action, N - 1 times in all; Done
\* is entered exactly once, by the Nth successful completion and never
\* earlier.
C1_DoneAfterNthCompletion ==
    NumActions >= 1 =>
        /\ completions <= NumActions
        /\ doneEntries = (IF completions = NumActions THEN 1 ELSE 0)
        /\ advances = (IF completions = NumActions THEN NumActions - 1 ELSE completions)
        /\ (view = stateDone <=> completions = NumActions)

C1_Witness ==
    view = stateDone /\ NumActions >= 2 /\ completions = NumActions

\* C2: at most one gateway command is outstanding, and while one is, the
\* engine is on a screen that dispatches nothing (Loading or
\* SubmittingAction).
C2_OneCommandOutstanding ==
    /\ Len(inflight) <= 1
    /\ Len(inflight) = 1 => view \in {stateLoading, stateSubmittingAction}

C2_Witness ==
    Len(inflight) = 1 /\ inflight[1].kind = "modify" /\ currentEmail = 1

\* C3: a Submission Result with no proposed actions puts the engine in
\* Done straight from Loading: for that email only PreviewEmail, Loading
\* and Done are ever entered, and no command is outstanding.
C3_NoActionsStraightToDone ==
    (response # Nil /\ NumActions = 0) =>
        /\ view = stateDone
        /\ visited = {statePreviewEmail, stateLoading, stateDone}
        /\ inflight = <<>>
        /\ completions = 0

C3_Witness ==
    response # Nil /\ NumActions = 0 /\ view = stateDone /\ doneEntries = 1

\* The text the Error screen draws for an error.
ErrorScreen(e) == <<"Error", NL, NL>> \o e.msg \o <<NL, NL, "Press Enter to exit.">>

\* C4: a failed gateway call of any of the four kinds moves the engine to
\* Error, records the delivered error and draws its text; the confirm key
\* on Error ends the session.
C4_GatewayErrorShown ==
    [][/\ \A i \in 1..Len(inflight) : \A e \in GatewayErrors :
            (SubmitFail(i, e) \/ ActionFail(i, e)) =>
                /\ view' = stateError
                /\ err' = e
                /\ viewport'.content = ErrorScreen(e)
                /\ viewport'.YOffset = 0
       /\ (view = stateError /\ Key(KeyMsg("KeyEnter", ""), editor.value)) => ~running'
      ]_vars

C4_Witness ==
    /\ view = stateError
    /\ err \in GatewayErrors
    /\ viewport.content = ErrorScreen(err)
    /\ stateSubmittingAction \in visited
    /\ ~running

\* The answer a key gives to the preference prompt.
PromptAnswer(msg) ==
    IF msg.Type = "KeyRunes" /\ msg.Runes \in {"y", "Y"} THEN "global"
    ELSE IF msg.Type = "KeyRunes" /\ msg.Runes \in {"n", "N"} THEN "recipient"
    ELSE IF msg.Type = "KeyEnter" THEN "default"
    ELSE "none"

\* The object the save that opened the prompt parsed: the editor still
\* holds the saved text.
SavedObject == ParseDocument(TrimSpace(editor.value)).val

\* C5: after a save of a JSON object, an answer to the prompt issues
\* exactly one modify command for the current action, carrying the saved
\* object, with apply_to_general_preferences true for "apply globally" and
\* false for the per-recipient key and for the default confirm key.
C5_ModifyCarriesSavedObject ==
    [][\A msg \in KeyMsgs :
          (/\ view = statePromptGeneral
           /\ PromptAnswer(msg) # "none"
           /\ SavedObject.t = "map"
           /\ Key(msg, editor.value)) =>
              inflight' =
                  << [kind |-> "modify",
                      index |-> currentAction,
                      actionID |-> response.ProposedActions[currentAction + 1].ActionID,
                      payload |-> SavedObject,
                      record_preferences |-> TRUE,
                      apply_to_general_preferences |-> (PromptAnswer(msg) = "global")] >>
      ]_vars

C5_Witness ==
    /\ view = stateSubmittingAction
    /\ Len(inflight) = 1
    /\ inflight[1].kind = "modify"
    /\ inflight[1].apply_to_general_preferences
    /\ inflight[1].payload = JMap([x \in {"k"} |-> JNum(2)])

\* Editor texts that are no JSON document.
MalformedTexts == {<<"{", "invalid">>}

\* C6: the save key on malformed text stays in EditingPayload, sets a
\* non-empty inline error, dispatches nothing and leaves the action
\* records, the action index and the pending edit unchanged.
C6_MalformedSaveStaysInEditor ==
    [][(/\ view = stateEditingPayload
        /\ editor.value \in MalformedTexts
        /\ Key(KeyMsg("KeyCtrlS", ""), editor.value)) =>
           /\ view' = stateEditingPayload
           /\ editorErr' # <<>>
           /\ inflight' = inflight
           /\ running'
           /\ UNCHANGED <<response, currentAction, pending>>
      ]_vars

C6_Witness ==
    /\ view = stateEditingPayload
    /\ editor.value \in MalformedTexts
    /\ editorErr = <<"Invalid JSON: ">> \o SyntaxError
    /\ inflight = <<>>

\* Whether a text is a JSON document whose top-level value is an object.
IsObjectText(text) ==
    ParseDocument(TrimSpace(text)).ok /\ ParseDocument(TrimSpace(text)).val.t = "map"

\* C7: the save key accepts only a top-level JSON object: for every other
\* buffer (array, scalar, null, malformed, empty) it sets a validation
\* error and stays in EditingPayload.
C7_OnlyObjectsAccepted ==
    [][(/\ view = stateEditingPayload
        /\ ~IsObjectText(editor.value)
        /\ Key(KeyMsg("KeyCtrlS", ""), editor.value)) =>
           (view' = stateEditingPayload /\ editorErr' # <<>>)
      ]_vars

\* C8: whenever a Submission Result with at least one proposed action is
\* installed, the action index is a valid index into its actions.
C8_ActionIndexInRange ==
    (response # Nil /\ Len(response.ProposedActions) >= 1) =>
        (0 <= currentAction /\ currentAction < Len(response.ProposedActions))

C8_Witness ==
    /\ response # Nil
    /\ Len(response.ProposedActions) >= 2
    /\ currentAction = Len(response.ProposedActions) - 1
    /\ view = stateDone

\* C9: a resize changes geometry, scroll position and rendered text only:
\* the screen, the indices, the Submission Result, the emails, the pending
\* edit, the error, the status, the editor's text and the commands in
\* flight stay as they are.
C9_ResizeKeepsSession ==
    [][\A msg \in WindowSizeMsgs :
          Resize(msg) =>
              /\ UNCHANGED <<view, currentAction, currentEmail, response, email,
                             emails, pending, err, status, editorErr, inflight,
                             running>>
              /\ editor'.value = editor.value
      ]_vars

C9_Witness ==
    /\ viewport.Width = 40
    /\ editor.Width = 36
    /\ view = stateReview
    /\ currentAction = 1
    /\ status # <<>>

\* C10: the pending edit is absent on every screen but PromptGeneral.
C10_PendingOnlyInPrompt ==
    view # statePromptGeneral => pending = Nil

\* Positions of the approve, reject and modify commands in flight.
ActionCmds == InFlight({"approve", "reject", "modify"})

\* C11: a successful action completion carrying index i replaces the
\* record at index i of the Submission Result by the returned Action,
\* whatever the action index is, and leaves every other record and every
\* other field of the Submission Result as it was.
C11_CompletionOverwritesItsIndex ==
    [][\A i \in ActionCmds : \A action \in UpdatedPool :
          ActionOk(i, action) =>
              /\ inflight[i].index + 1 \in DOMAIN response.ProposedActions
              /\ response' = [response EXCEPT
                                  !.ProposedActions[inflight[i].index + 1] = action]
      ]_vars

C11_Witness ==
    /\ view = stateReview
    /\ currentAction = 1
    /\ response.ProposedActions[1] \in UpdatedPool
    /\ response.ProposedActions[2] \in ProposedPool

\* C12: Enter in Done, while sample emails remain, shows PreviewEmail for
\* the next email with the Session reset as on a fresh load: no Submission
\* Result, action index 0, no pending edit, no inline editor error, no
\* recorded error, the preview instruction as status and no command
\* dispatched.  When no sample email remains, Enter ends the process.
C12_EnterInDoneAdvancesOrEnds ==
    view = stateDone =>
        LET r == Update(M, KeyMsg("KeyEnter", ""), editor.value)
        IN  IF currentEmail + 1 < Len(emails)
            THEN /\ r.cmd = NoCmd
                 /\ r.m.view = statePreviewEmail
                 /\ r.m.currentEmail = currentEmail + 1
                 /\ r.m.email = emails[currentEmail + 2]
                 /\ r.m.response = Nil
                 /\ r.m.currentAction = 0
                 /\ r.m.pending = Nil
                 /\ r.m.editorErr = <<>>
                 /\ r.m.err = Nil
                 /\ r.m.status = previewInstruction
                 /\ r.m.emails = emails
                 /\ r.m.viewport.YOffset = 0
            ELSE r = [m |-> M, cmd |-> Quit]

C12_Witness ==
    /\ view = statePreviewEmail
    /\ currentEmail = 1
    /\ email = emails[2]
    /\ response = Nil
    /\ editor.value # <<>>
    /\ running

\* C13: the successful completion of a submit-email command installs the
\* Submission Result with the action index at 0, also when an action of
\* the previous email was under review before.
C13_InstallLeavesIndexZero ==
    [][\A i \in InFlight({"submit"}) : \A resp \in Responses(inflight[i].email) :
          SubmitOk(i, resp) => (response' = resp /\ currentAction' = 0)
      ]_vars

C13_Witness ==
    /\ view = stateSummary
    /\ currentEmail = 1
    /\ currentAction = 0
    /\ Len(response.ProposedActions) >= 1
    /\ editor.value # <<>>

\* C14: for each email index at most one submit-email command is ever
\* dispatched, and a submit-email command is dispatched only by the
\* confirm key pressed in PreviewEmail, for the email on display.
C14_SubmitOncePerEmail ==
    [][/\ \A e \in DOMAIN submits : submits'[e] <= 1
       /\ submits' # submits =>
              /\ view = statePreviewEmail
              /\ Key(KeyMsg("KeyEnter", ""), editor.value)
              /\ submits' = [submits EXCEPT ![currentEmail] = 1]
              /\ inflight' = <<loadSampleEmailCmd(emails[currentEmail + 1])>>
       /\ (Len(inflight') > Len(inflight) /\ inflight'[Len(inflight')].kind = "submit")
              => submits' # submits
      ]_vars

C14_Witness ==
    /\ view = stateLoading
    /\ currentEmail = 1
    /\ submits = [e \in DOMAIN submits |-> 1]
    /\ inflight = <<loadSampleEmailCmd(emails[2])>>

\* C15 as stated: once the Error screen is shown, the only step that
\* changes anything is the one that ends the process.
C15_ErrorOnlyEnds ==
    [][view = stateError =>
          UNCHANGED <<view, email, emails, currentEmail, response, currentAction,
                      status, editor, editorErr, pending, err, viewport,
                      inflight>>
      ]_vars

\* C15 amended: Error is terminal.  No command is in flight when Error is
\* shown and none is dispatched from it, the screen stays Error, and the
\* Session, the status and the recorded error stay as they are; a step
\* from Error either ends the process and changes nothing else, or is a
\* resize or a scroll key, which change only the geometry of the viewport
\* and of the editor and the scroll position.
C15_ErrorIsTerminal ==
    [][view = stateError =>
          /\ inflight = <<>>
          /\ UNCHANGED <<view, email, emails, currentEmail, response,
                         currentAction, status, editorErr, pending, err,
                         inflight>>
          /\ editor'.value = editor.value
          /\ ~running' => UNCHANGED <<viewport, editor>>
          /\ viewport'.content = viewport.content
          /\ (viewport' # viewport \/ editor' # editor) =>
                 \/ \E msg \in WindowSizeMsgs : Resize(msg)
                 \/ \E msg \in KeyMsgs :
                        /\ handleViewportScroll(M, msg).handled
                        /\ Key(msg, editor.value)
      ]_vars

C15_Witness ==
    /\ view = stateError
    /\ err \in GatewayErrors
    /\ inflight = <<>>
    /\ viewport.Width = 40
    /\ ~running

\* The screens shown while a command is in flight.
WaitingScreens == {stateLoading, stateSubmittingAction}

\* C16: while Loading or SubmittingAction is shown exactly one command is
\* in flight; a command joins the commands in flight only on entering one
\* of these screens and leaves them only by the one completion that also
\* leaves the screen; so, completions being delivered fairly, every visit
\* to Loading or SubmittingAction is followed by Summary, Review, Done or
\* Error, or by the end of the process.
C16_WaitingScreensEnd ==
    /\ [](view \in WaitingScreens => Len(inflight) = 1)
    /\ [][inflight' # inflight =>
              \/ view \notin WaitingScreens /\ view' \in WaitingScreens
              \/ view \in WaitingScreens /\ view' \notin WaitingScreens
                    /\ inflight' = <<>>
         ]_vars
    /\ (view \in WaitingScreens /\ running)
           ~> (view \in {stateSummary, stateReview, stateDone, stateError}
                  \/ ~running)

C16_Witness ==
    /\ view = stateReview
    /\ currentAction = 1
    /\ completions = 1
    /\ visited = {statePreviewEmail, stateLoading, stateSummary, stateReview,
                  stateSubmittingAction}
    /\ inflight = <<>>
    /\ running

\* The quit key: the rune q in either case.
QuitKeys == {KeyMsg("KeyRunes", "q"), KeyMsg("KeyRunes", "Q")}

\* C17 as stated: the quit key ends the process in Done and in Error.
C17_QuitEndsDoneAndError ==
    view \in {stateDone, stateError} =>
        \A msg \in QuitKeys : Update(M, msg, editor.value).cmd = Quit

\* C17 amended: the quit key ends the process in Done and changes
\* nothing else; in Error the quit key does nothing, and the confirm key
\* ends the process.
C17_QuitEndsDone ==
    /\ view = stateDone =>
           \A msg \in QuitKeys :
               Update(M, msg, editor.value) = [m |-> M, cmd |-> Quit]
    /\ view = stateError =>
           /\ \A msg \in QuitKeys :
                  Update(M, msg, editor.value) = [m |-> M, cmd |-> NoCmd]
           /\ Update(M, KeyMsg("KeyEnter", ""), editor.value)
                  = [m |-> M, cmd |-> Quit]

C17_Witness ==
    /\ view = stateDone
    /\ currentEmail = 0
    /\ hasMoreEmails(M)
    /\ inflight = <<>>
    /\ ~running

\* C18: Ctrl+C ends the process on every screen, with a command in
\* flight or the editor focused alike; it dispatches no command and
\* changes nothing of the Session.
C18_TerminateEndsEverywhere ==
    \A typed \in TextareaOutcomes(M, KeyMsg("KeyCtrlC", "")) :
        Update(M, KeyMsg("KeyCtrlC", ""), typed) = [m |-> M, cmd |-> Quit]

C18_Witness ==
    /\ view = stateEditingPayload
    /\ editor.focus
    /\ ~running

\* C19: the actions of one email are reviewed in the order of the
\* Submission Result.  The action index stays within 0..N-1 and moves only
\* by +1; a command in flight for index i has exactly the indices below i
\* successfully completed before it (completions counts the successful
\* completions of this email, each made for the index equal to the count
\* at its time), so no completed index receives another command.
C19_ReviewedInOrder ==
    /\ [](\A j \in ActionCmds :
             /\ inflight[j].index = completions
             /\ inflight[j].index = currentAction
             /\ inflight[j].index < NumActions)
    /\ [][/\ currentEmail' # currentEmail =>
                (currentAction' = 0 /\ completions' = 0)
          /\ currentEmail' = currentEmail =>
                currentAction' \in {currentAction, currentAction + 1}
          /\ currentAction' = currentAction + 1 =>
                /\ currentAction' = completions'
                /\ currentAction' < Len(response'.ProposedActions)
          /\ completions' \in {0, completions, completions + 1}
          /\ completions' = completions + 1 =>
                \E i \in ActionCmds : inflight[i].index = completions
        ]_vars

C19_Witness ==
    /\ view = stateSubmittingAction
    /\ Len(inflight) = 1
    /\ inflight[1].index = 1
    /\ completions = 1
    /\ response.ProposedActions[1] \in UpdatedPool

\* The command dispatched by the step, if the step dispatches one.
Dispatched == inflight'[Len(inflight')]

\* C20: a step that dispatches an approve, reject or modify command sends
\* it for the action at the current index, with that action's identifier
\* and that index, and shows SubmittingAction without moving the index or
\* touching the Submission Result; the index and the Submission Result
\* stay as they are throughout EditingPayload and PromptGeneral, so a
\* modify command targets the action whose payload was loaded into the
\* editor.
C20_CommandTargetsCurrentAction ==
    [][/\ (Len(inflight') > Len(inflight)
              /\ Dispatched.kind \in {"approve", "reject", "modify"}) =>
              /\ view \in {stateReview, statePromptGeneral}
              /\ Dispatched.kind = "modify" <=> view = statePromptGeneral
              /\ actionAt(M, currentAction) # Nil
              /\ Dispatched.index = currentAction
              /\ Dispatched.actionID = actionAt(M, currentAction).ActionID
              /\ view' = stateSubmittingAction
              /\ UNCHANGED <<currentAction, response, currentEmail>>
       /\ view \in {stateEditingPayload, statePromptGeneral} =>
              UNCHANGED <<currentAction, response, currentEmail>>
       /\ (view = stateReview /\ view' = stateEditingPayload) =>
              /\ UNCHANGED <<currentAction, response>>
              /\ editor'.value = toPrettyJSON(actionAt(M, currentAction).Payload).text
      ]_vars

C20_Witness ==
    /\ view = stateSubmittingAction
    /\ currentAction = 1
    /\ Len(inflight) = 1
    /\ inflight[1].kind = "modify"
    /\ inflight = <<modifyActionCmd(1, response.ProposedActions[2].ActionID,
                                    inflight[1].payload,
                                    inflight[1].apply_to_general_preferences)>>

\* The line-up/down, page-up/down and jump-to-top/bottom keys.
ScrollKeys ==
    {KeyMsg(ty, "") : ty \in {"KeyUp", "KeyDown", "KeyPgUp", "KeyPgDown",
                              "KeyHome", "KeyEnd"}}

\* C21: on every scrollable screen a scroll key changes nothing but the
\* scroll offset of the viewport, which stays within the content: the
\* screen, the indices, the Submission Result, the pending edit, the
\* recorded error, the status and the rendered text stay as they are and
\* no command is dispatched.
C21_ScrollMovesWindowOnly ==
    viewUsesViewport(M) =>
        \A msg \in ScrollKeys :
            LET r == Update(M, msg, editor.value)
            IN  /\ r.cmd = NoCmd
                /\ r.m = [M EXCEPT !.viewport.YOffset = r.m.viewport.YOffset]
                /\ r.m.viewport.YOffset \in 0..maxYOffset(viewport)

C21_Witness ==
    /\ view = stateReview
    /\ currentAction = 1
    /\ status # <<>>
    /\ viewport.YOffset = 2
    /\ inflight = <<>>

\* The status lines the engine gives a screen when it enters it; a screen
\* without a status line of its own is entered with the status cleared.
EntryStatus(v) ==
    CASE v = statePreviewEmail -> {previewInstruction}
      [] v = stateLoading -> {<<"Submitting email to the agents...">>}
      [] v = stateSummary -> {<<>>}
      [] v = stateReview ->
            {<<>>, successStyle(<<"Action updated successfully.">>),
             subtleTextStyle(<<"Modification cancelled.">>)}
      [] v = stateEditingPayload -> {<<>>}
      [] v = statePromptGeneral ->
            {<<"Apply extracted preferences to general profile? (y/N)">>}
      [] v = stateSubmittingAction ->
            {<<"Approving action...">>, <<"Rejecting action...">>,
             <<"Submitting modified action...">>}
      [] v = stateDone ->
            {<<"No actions to review.">>,
             successStyle(<<"All actions reviewed.">>)}
      [] v = stateError -> {<<>>}
      [] OTHER -> {}

\* C22: every change of the screen sets the status line: the screen
\* entered holds a status of its own or a cleared status, never the text
\* that was set for the screen left.
C22_TransitionSetsStatus ==
    [][view' # view => status' \in EntryStatus(view')]_vars

\* The screens shown through the viewport.
ScrollableScreens ==
    {statePreviewEmail, stateSummary, stateReview, statePromptGeneral,
     stateDone, stateError}

\* C23: on a scrollable screen the viewport always holds the rendering of
\* the current screen from the current Session data, and a step that
\* changes the screen, the Session data or the status and ends on a
\* scrollable screen leaves the scroll offset at the top.
C23_ViewportNeverStale ==
    /\ [](view \in ScrollableScreens => viewport.content = currentViewContent(M))
    /\ [][(/\ view' \in ScrollableScreens
            /\ ~UNCHANGED <<view, email, emails, currentEmail, response,
                            currentAction, pending, err, status>>)
              => viewport'.YOffset = 0
         ]_vars

C23_Witness ==
    /\ view = stateReview
    /\ currentAction = 1
    /\ viewport.content = renderCurrentActionContent(M)
    /\ maxYOffset(viewport) > 0
    /\ viewport.YOffset = 0
    /\ response.ProposedActions[1] \in UpdatedPool

\* The pretty-printed payload of the action at the current index.
CurrentPayloadText == toPrettyJSON(actionAt(M, currentAction).Payload).text

\* C24: the modify key in Review enters EditingPayload with the editor
\* focused and holding the pretty-printed payload of the action at the
\* current index and with the inline error cleared, and dispatches
\* nothing; EditingPayload is entered in no other way, so neither the text
\* nor the error of an earlier edit is there on entry.
C24_EditorReseededOnEntry ==
    /\ [](view = stateReview =>
             LET r == Update(M, KeyMsg("KeyRunes", "m"), editor.value)
             IN  /\ r.cmd = NoCmd
                 /\ r.m.view = stateEditingPayload
                 /\ r.m.editor.value = CurrentPayloadText
                 /\ r.m.editor.focus
                 /\ r.m.editorErr = <<>>)
    /\ [][(view # stateEditingPayload /\ view' = stateEditingPayload) =>
              /\ view = stateReview
              /\ editor'.value = CurrentPayloadText
              /\ editorErr' = <<>>
              /\ UNCHANGED <<currentAction, response, inflight>>
         ]_vars

C24_Witness ==
    /\ view = stateEditingPayload
    /\ status = subtleTextStyle(<<"Modification cancelled.">>)
    /\ currentAction = 1
    /\ editor.value = CurrentPayloadText
    /\ editorErr = <<>>

\* C25: Esc in EditingPayload shows Review on the same action index,
\* dispatches no command, leaves the pending edit as it was (nothing of
\* the buffer is stored) and leaves the Submission Result, so every
\* action record, unchanged.
C25_CancelReturnsToReview ==
    view = stateEditingPayload =>
        \A typed \in TextareaOutcomes(M, KeyMsg("KeyEsc", "")) :
            LET r == Update(M, KeyMsg("KeyEsc", ""), typed)
            IN  /\ r.cmd = NoCmd
                /\ r.m.view = stateReview
                /\ r.m.currentAction = currentAction
                /\ r.m.currentEmail = currentEmail
                /\ r.m.response = response
                /\ r.m.pending = pending
                /\ r.m.err = err
                /\ r.m.status = subtleTextStyle(<<"Modification cancelled.">>)

C25_Witness ==
    /\ view = stateReview
    /\ status = subtleTextStyle(<<"Modification cancelled.">>)
    /\ currentAction = 1
    /\ editor.value = <<"{", "\"k\"", ":", " ", "2", "}">>
    /\ pending = Nil
    /\ inflight = <<>>
    /\ response.ProposedActions[2] \in ProposedPool

\* C26: in Loading and SubmittingAction every key but Ctrl+C leaves the
\* whole model as it is and dispatches nothing, and the screen is left
\* only by the step that takes the one command in flight out of flight,
\* its completion, which shows Summary, Review, Done or Error.
C26_WaitingScreensIgnoreKeys ==
    /\ [](view \in WaitingScreens =>
             \A msg \in KeyMsgs \ {KeyMsg("KeyCtrlC", "")} :
                 \A typed \in TextareaOutcomes(M, msg) :
                     Update(M, msg, typed) = [m |-> M, cmd |-> NoCmd])
    /\ [][(view \in WaitingScreens /\ view' # view) =>
              /\ Len(inflight) = 1
              /\ inflight' = <<>>
              /\ view' \in {stateSummary, stateReview, stateDone, stateError}
         ]_vars

C26_Witness ==
    /\ view = stateSubmittingAction
    /\ Len(inflight) = 1
    /\ inflight[1].kind = "reject"
    /\ currentAction = 1
    /\ running

\* C27: on Summary, Review, EditingPayload, PromptGeneral and
\* SubmittingAction a Submission Result with at least one action is
\* installed and the current index names one of its actions, so actionAt
\* never returns nil there; on Error an error is recorded.
ActionScreens ==
    {stateSummary, stateReview, stateEditingPayload, statePromptGeneral,
     stateSubmittingAction}

C27_CurrentActionExists ==
    /\ view \in ActionScreens =>
           /\ response # Nil
           /\ Len(response.ProposedActions) >= 1
           /\ currentAction \in 0..(Len(response.ProposedActions) - 1)
           /\ actionAt(M, currentAction) # Nil
    /\ view = stateError => err # Nil

C27_Witness ==
    /\ view = stateEditingPayload
    /\ currentAction = 1
    /\ Len(response.ProposedActions) = 2
    /\ actionAt(M, currentAction) = response.ProposedActions[2]
    /\ currentEmail = 1

====
